---- MODULE Spec2Model ----
(***************************************************************************)
(* Model of the job-application tracker (jobapp/db.py, jobapp/cli.py).     *)
(*                                                                         *)
(* The store is the `applications` table: a set of rows plus the           *)
(* AUTOINCREMENT counter SQLite keeps in sqlite_sequence.  Every action is *)
(* one invocation of the command line (`main`), which opens the store,     *)
(* runs init_db and then the selected command.                             *)
(*                                                                         *)
(* Encodings                                                               *)
(*   text            a tuple of one-character strings, <<"M","e">>         *)
(*   Optional[x]     None == <<>>, Some(x) == <<x>>  (Python None / NULL)  *)
(*   date_applied    the day number of a valid ISO date (the ISO string    *)
(*                   order and the day-number order coincide)              *)
(*   julianday       counted in ticks, TicksPerDay ticks to a day          *)
(***************************************************************************)
EXTENDS Integers, Sequences, FiniteSets, TLC

(* ------------------------------ bounds -------------------------------- *)

\* number of command invocations in a behaviour
MaxCmds == 3
\* resolution of the clock: ticks in one day (tick 0 is midnight UTC)
TicksPerDay == 2
\* the clock may advance this many ticks after the first command
MaxTicks == 1

(* --------------------------- Optional values -------------------------- *)

None == <<>>
Some(x) == <<x>>
IsNone(o) == Len(o) = 0
Get(o) == o[1]

(* -------------------------------- text -------------------------------- *)

\* str.lower() / SQL LOWER() on the characters the model uses
LowerChar(c) == IF c = "M" THEN "m" ELSE IF c = "E" THEN "e" ELSE IF c = "O" THEN "o" ELSE c

Lower(s) == [i \in 1..Len(s) |-> LowerChar(s[i])]

\* q occurs in s as a contiguous run of characters
IsSubstring(q, s) ==
    \E k \in 0..(Len(s) - Len(q)) : \A i \in 1..Len(q) : s[k + i] = q[i]

DigitValue(c) ==
    IF c = "0" THEN 0 ELSE IF c = "1" THEN 1 ELSE IF c = "2" THEN 2
    ELSE IF c = "3" THEN 3 ELSE IF c = "4" THEN 4 ELSE IF c = "5" THEN 5
    ELSE IF c = "6" THEN 6 ELSE IF c = "7" THEN 7 ELSE IF c = "8" THEN 8
    ELSE 9

IsDigit(c) == c \in {"0", "1", "2", "3", "4", "5", "6", "7", "8", "9"}

\* int(args.target) succeeds (otherwise it raises ValueError); the targets
\* of the model are plain runs of digits or hold a letter
\* (faulty variant: every target is taken for a company query)
IsIntBad(t) == FALSE
IsInt(t) == Len(t) > 0 /\ \A i \in 1..Len(t) : IsDigit(t[i])

RECURSIVE ParseDigits(_, _)
ParseDigits(t, n) ==
    IF n = 0 THEN 0 ELSE 10 * ParseDigits(t, n - 1) + DigitValue(t[n])

\* the value of int(args.target) when it succeeds
ParseInt(t) == ParseDigits(t, Len(t))

\* SQLite LIKE: % matches any run, _ any one character, letters compare
\* without regard to (ASCII) case
RECURSIVE Like(_, _)
Like(p, s) ==
    IF Len(p) = 0 THEN Len(s) = 0
    ELSE IF Head(p) = "%"
         THEN Like(Tail(p), s) \/ (Len(s) > 0 /\ Like(p, Tail(s)))
         ELSE /\ Len(s) > 0
              /\ (Head(p) = "_" \/ LowerChar(Head(p)) = LowerChar(Head(s)))
              /\ Like(Tail(p), Tail(s))

(* ------------------------------ the store ----------------------------- *)

\* status values with a meaning to the queries
TerminalStatuses == {"Rejected", "Ghosted", "Withdrawn"}

\* (faulty variant: a terminal status among the early ones)
EarlyStatusesBad == {"Applied", "Recruiter Screen", "OA", "Rejected"}
EarlyStatuses == {"Applied", "Recruiter Screen", "OA"}

\* the columns `update` can set, in the order main collects them
MutableFields ==
    <<"company", "role", "job_link", "location", "date_applied", "source",
      "status", "priority", "notes">>

Max(a, b) == IF a >= b THEN a ELSE b

Ids(rs) == {r.id : r \in rs}

RECURSIVE MaxOf(_)
MaxOf(S) == IF S = {} THEN 0 ELSE LET x == CHOOSE x \in S : TRUE IN Max(x, MaxOf(S \ {x}))

\* id INTEGER PRIMARY KEY AUTOINCREMENT: one more than the largest id the
\* table ever held (sqlite_sequence.seq), never an id of a deleted row
\* (faulty variant: the largest id now in the table plus one, as without AUTOINCREMENT)
AutoIncrementBad(rs, sq) == MaxOf(Ids(rs)) + 1
AutoIncrement(rs, sq) == Max(sq, MaxOf(Ids(rs))) + 1

\* date.today() of the tick `t`
Today(t) == t \div TicksPerDay

\* julianday(x), in ticks
JulianNow(t) == t
JulianDay(d) == d * TicksPerDay

\* db.init_db: CREATE TABLE / CREATE INDEX ... IF NOT EXISTS.  A store that
\* was never opened and a store with an empty table are one state, so the
\* statements change neither the rows nor sqlite_sequence
\* (faulty variant: the table is created anew)
init_dbRecreate(rs, sq) == [rows |-> {}, seq |-> sq]
\* (faulty variant: the id counter starts over)
init_dbRestart(rs, sq) == [rows |-> rs, seq |-> 0]
init_db(rs, sq) == [rows |-> rs, seq |-> sq]

\* db.add_application: the store after the INSERT and the id it returns
\* (faulty variant: the status column is left to its default)
add_applicationBad(rs, sq, t, company, role, job_link, location, date_applied, source, status, priority, notes) ==
    LET id == AutoIncrement(rs, sq)
        row == [id |-> id,
                company |-> company,
                role |-> role,
                job_link |-> job_link,
                location |-> location,
                date_applied |-> IF IsNone(date_applied) THEN Today(t) ELSE Get(date_applied),
                source |-> source,
                status |-> "Applied",
                last_action |-> None,
                priority |-> priority,
                notes |-> notes]
    IN [rows |-> rs \cup {row}, seq |-> id, id |-> id]
add_application(rs, sq, t, company, role, job_link, location, date_applied, source, status, priority, notes) ==
    LET id == AutoIncrement(rs, sq)
        row == [id |-> id,
                company |-> company,
                role |-> role,
                job_link |-> job_link,
                location |-> location,
                date_applied |-> IF IsNone(date_applied) THEN Today(t) ELSE Get(date_applied),
                source |-> source,
                status |-> status,
                last_action |-> None,
                priority |-> priority,
                notes |-> notes]
    IN [rows |-> rs \cup {row}, seq |-> id, id |-> id]

\* db.update_status: UPDATE ... SET status, last_action WHERE id = app_id
\* (faulty variant: a last_action that is not supplied leaves the old one in place)
update_statusBad(rs, app_id, status, last_action) ==
    [rows |-> {IF r.id = app_id
               THEN [r EXCEPT !.status = status,
                              !.last_action = IF IsNone(last_action) THEN @ ELSE last_action]
               ELSE r : r \in rs},
     found |-> app_id \in Ids(rs)]
\* (faulty variant: the row count is not looked at)
update_statusFound(rs, app_id, status, last_action) ==
    [rows |-> {IF r.id = app_id
               THEN [r EXCEPT !.status = status, !.last_action = last_action]
               ELSE r : r \in rs},
     found |-> TRUE]
update_status(rs, app_id, status, last_action) ==
    [rows |-> {IF r.id = app_id
               THEN [r EXCEPT !.status = status, !.last_action = last_action]
               ELSE r : r \in rs},
     found |-> app_id \in Ids(rs)]

\* ORDER BY date_applied DESC, id DESC
\* (faulty variant: rows of one date in ascending order of id)
ListBeforeBad(r, o) ==
    r.date_applied > o.date_applied \/ (r.date_applied = o.date_applied /\ r.id <= o.id)
ListBefore(r, o) ==
    r.date_applied > o.date_applied \/ (r.date_applied = o.date_applied /\ r.id >= o.id)

RECURSIVE OrderByDateDescIdDesc(_)
OrderByDateDescIdDesc(S) ==
    IF S = {} THEN <<>>
    ELSE LET first == CHOOSE r \in S : \A o \in S : ListBefore(r, o)
         IN <<first>> \o OrderByDateDescIdDesc(S \ {first})

\* db.list_applications
\* (faulty variant: active_only is not looked at)
list_applicationsAll(rs, company, status, active_only) ==
    LET byCompany(r) == IsNone(company) \/ Len(Get(company)) = 0
                        \/ Like(<<"%">> \o Get(company) \o <<"%">>, r.company)
        byStatus(r) == IsNone(status) \/ Get(status) = "" \/ r.status = Get(status)
        byActive(r) == TRUE
    IN OrderByDateDescIdDesc({r \in rs : byCompany(r) /\ byStatus(r) /\ byActive(r)})
\* (faulty variant: the status filter is skipped when a company filter is given)
list_applicationsElif(rs, company, status, active_only) ==
    LET byCompany(r) == IsNone(company) \/ Len(Get(company)) = 0
                        \/ Like(<<"%">> \o Get(company) \o <<"%">>, r.company)
        byStatus(r) == ~IsNone(company) \/ IsNone(status) \/ Get(status) = "" \/ r.status = Get(status)
        byActive(r) == ~active_only \/ r.status \notin TerminalStatuses
    IN OrderByDateDescIdDesc({r \in rs : byCompany(r) /\ byStatus(r) /\ byActive(r)})
list_applications(rs, company, status, active_only) ==
    LET byCompany(r) == IsNone(company) \/ Len(Get(company)) = 0
                        \/ Like(<<"%">> \o Get(company) \o <<"%">>, r.company)
        byStatus(r) == IsNone(status) \/ Get(status) = "" \/ r.status = Get(status)
        byActive(r) == ~active_only \/ r.status \notin TerminalStatuses
    IN OrderByDateDescIdDesc({r \in rs : byCompany(r) /\ byStatus(r) /\ byActive(r)})

\* COALESCE(notes, '')
Coalesce(o) == IF IsNone(o) THEN <<>> ELSE Get(o)

\* the WHERE clause of db.search_applications, pattern being %query.lower()%
SearchRow(r, pattern) ==
    \/ Like(pattern, Lower(r.company))
    \/ Like(pattern, Lower(r.role))
    \/ Like(pattern, Lower(Coalesce(r.notes)))

\* db.search_applications
search_applications(rs, query) ==
    LET pattern == <<"%">> \o Lower(query) \o <<"%">>
    IN OrderByDateDescIdDesc({r \in rs : SearchRow(r, pattern)})

\* the WHERE clause of db.followups
\* (faulty variant: the age alone decides, whatever the status)
FollowupRowBad(r, t, days) ==
    JulianNow(t) - JulianDay(r.date_applied) > days * TicksPerDay
FollowupRow(r, t, days) ==
    /\ r.status \in EarlyStatuses
    /\ JulianNow(t) - JulianDay(r.date_applied) > days * TicksPerDay

\* all arrangements of the rows of S
Arrangements(S) ==
    {s \in [1..Cardinality(S) -> S] : \A i, j \in 1..Cardinality(S) : s[i] = s[j] => i = j}

\* db.followups: ORDER BY date_applied ASC leaves the order of rows of one
\* date to the store, so every such order is a possible result
followups(rs, t, days) ==
    {s \in Arrangements({r \in rs : FollowupRow(r, t, days)}) :
        \A i, j \in 1..Len(s) : i < j => s[i].date_applied <= s[j].date_applied}

\* COUNT(*) of the group of one status
\* (faulty variant: a group counts as one)
StatusCountBad(rs, status) == 1
StatusCount(rs, status) == Cardinality({r \in rs : r.status = status})

\* db.stats_by_status: one <<status, count>> line for each status in the
\* table, ORDER BY count DESC; the order of statuses of one count is left to
\* the store, so every such order is a possible result
stats_by_status(rs) ==
    {s \in Arrangements({<<st, StatusCount(rs, st)>> : st \in {r.status : r \in rs}}) :
        \A i, j \in 1..Len(s) : i < j => s[i][2] >= s[j][2]}

\* the rows export_applications_to_csv selects, in the order it writes them
\* (faulty variant: the WHERE clause of active_only is left out)
ExportRowsAll(rs, active_only) == OrderByDateDescIdDesc(rs)
ExportRows(rs, active_only) ==
    OrderByDateDescIdDesc({r \in rs : ~active_only \/ r.status \notin TerminalStatuses})

\* the columns of the file, in the order of the header
fieldnames ==
    <<"id", "company", "role", "job_link", "location", "date_applied", "source",
      "status", "last_action", "priority", "notes">>

\* str(n) of a natural number
RECURSIVE IntText(_)
IntText(n) ==
    LET digit == SubSeq(<<"0", "1", "2", "3", "4", "5", "6", "7", "8", "9">>,
                        (n % 10) + 1, (n % 10) + 1)
    IN IF n < 10 THEN digit ELSE IntText(n \div 10) \o digit

\* the text the csv writer makes of the value of column f: None gives the
\* empty text, a number its decimal digits; a status and a column name,
\* which hold letters and blanks only, are one piece of text
CellText(r, f) ==
    IF f = "id" THEN IntText(r.id)
    ELSE IF f = "date_applied" THEN IntText(r.date_applied)
    ELSE IF f = "status" THEN <<r.status>>
    ELSE IF f = "priority" THEN (IF IsNone(r.priority) THEN <<>> ELSE IntText(Get(r.priority)))
    ELSE IF f \in {"company", "role"} THEN r[f]
    ELSE Coalesce(r[f])

\* {name: row[name] for name in fieldnames}, as the texts written
RowCells(r) == [i \in 1..Len(fieldnames) |-> CellText(r, fieldnames[i])]

\* csv.QUOTE_MINIMAL: a field is quoted when it holds the delimiter, the
\* quote character or a character of the line terminator
NeedsQuote(t) == \E i \in 1..Len(t) : t[i] \in {",", "\"", "\r", "\n"}

\* doublequote: every quote character inside a quoted field is written twice
RECURSIVE Doubled(_)
Doubled(t) ==
    IF Len(t) = 0 THEN <<>>
    ELSE (IF Head(t) = "\"" THEN <<"\"", "\"">> ELSE <<Head(t)>>) \o Doubled(Tail(t))

\* one field as the csv writer writes it
\* (faulty variant: fields are written as they are)
CsvFieldBad(t) == t
CsvField(t) == IF NeedsQuote(t) THEN <<"\"">> \o Doubled(t) \o <<"\"">> ELSE t

\* writer.writerow: the fields separated by commas, then \r\n
RECURSIVE CsvJoin(_)
CsvJoin(cells) ==
    IF Len(cells) = 0 THEN <<>>
    ELSE IF Len(cells) = 1 THEN CsvField(cells[1])
    ELSE CsvField(cells[1]) \o <<",">> \o CsvJoin(Tail(cells))

CsvLine(cells) == CsvJoin(cells) \o <<"\r", "\n">>

RECURSIVE CsvLines(_)
CsvLines(rs) == IF Len(rs) = 0 THEN <<>> ELSE CsvLine(RowCells(Head(rs))) \o CsvLines(Tail(rs))

\* db.export_applications_to_csv: the characters written to the file, which
\* is opened for writing and so holds nothing else, and the count returned
export_applications_to_csv(rs, active_only) ==
    LET selected == ExportRows(rs, active_only)
    IN [file |-> CsvLine([i \in 1..Len(fieldnames) |-> <<fieldnames[i]>>]) \o CsvLines(selected),
        count |-> Len(selected)]

\* company-name resolution of a target that is not an integer: the rows
\* whose company contains the query, compared case-insensitively
find_applications_by_company(rs, query) ==
    {r \in rs : IsSubstring(Lower(query), Lower(r.company))}

\* deletion of the row with the given id
\* (faulty variant: the comparison of ids is an inequality)
remove_applicationBad(rs, app_id) ==
    [rows |-> {r \in rs : r.id > app_id}, deleted |-> app_id \in Ids(rs)]
remove_application(rs, app_id) ==
    [rows |-> {r \in rs : r.id # app_id}, deleted |-> app_id \in Ids(rs)]

(* ------------------- the standalone script jobs_cli.py ---------------- *)

\* jobs_cli.add_application
jobs_cli_add_application(rs, sq, t, company, role, job_link, location, date_applied, source, status, priority, notes) ==
    LET id == AutoIncrement(rs, sq)
        row == [id |-> id,
                company |-> company,
                role |-> role,
                job_link |-> job_link,
                location |-> location,
                date_applied |-> IF IsNone(date_applied) THEN Today(t) ELSE Get(date_applied),
                source |-> source,
                status |-> status,
                last_action |-> None,
                priority |-> priority,
                notes |-> notes]
    IN [rows |-> rs \cup {row}, seq |-> id, id |-> id]

\* jobs_cli.list_applications
jobs_cli_list_applications(rs, company, status, active_only) ==
    LET byCompany(r) == IsNone(company) \/ Len(Get(company)) = 0
                        \/ Like(<<"%">> \o Get(company) \o <<"%">>, r.company)
        byStatus(r) == IsNone(status) \/ Get(status) = "" \/ r.status = Get(status)
        byActive(r) == ~active_only \/ r.status \notin {"Rejected", "Ghosted", "Withdrawn"}
    IN OrderByDateDescIdDesc({r \in rs : byCompany(r) /\ byStatus(r) /\ byActive(r)})

\* jobs_cli.update_status
\* (faulty variant: the script sets the status only)
jobs_cli_update_statusBad(rs, app_id, status, last_action) ==
    [rows |-> {IF r.id = app_id THEN [r EXCEPT !.status = status] ELSE r : r \in rs},
     found |-> app_id \in Ids(rs)]
jobs_cli_update_status(rs, app_id, status, last_action) ==
    [rows |-> {IF r.id = app_id
               THEN [r EXCEPT !.status = status, !.last_action = last_action]
               ELSE r : r \in rs},
     found |-> app_id \in Ids(rs)]

\* jobs_cli.followups
jobs_cli_followups(rs, t, days) ==
    LET selected == {r \in rs :
                        /\ r.status \in {"Applied", "Recruiter Screen", "OA"}
                        /\ JulianNow(t) - JulianDay(r.date_applied) > days * TicksPerDay}
    IN {s \in Arrangements(selected) :
           \A i, j \in 1..Len(s) : i < j => s[i].date_applied <= s[j].date_applied}

(* --------------------------- command inputs --------------------------- *)

\* the day the first command runs, and the default of followups --days
StartDay == 8
DefaultDays == 7

\* the parsed command line (argparse.Namespace); None is "not supplied"
NoArgs ==
    [target |-> None, company |-> None, role |-> None, job_link |-> None,
     location |-> None, date_applied |-> None, source |-> None, status |-> None,
     priority |-> None, notes |-> None, last_action |-> None, days |-> None,
     query |-> None, active_only |-> FALSE]

\* `add`: --company and --role are required, --status defaults to Applied,
\* --priority is one of 1, 2, 3 when given; x stands for the four optional
\* texts
AddArgs(c, d, s, p, x) ==
    [NoArgs EXCEPT !.company = Some(c), !.role = Some(<<"r">>), !.date_applied = d,
                   !.status = Some(s), !.priority = p,
                   !.job_link = x, !.location = x, !.source = x, !.notes = x]

Older == Some(StartDay - DefaultDays - 1)
OnTheDay == Some(StartDay - DefaultDays)

AddInputs ==
    {AddArgs(<<"M", "e">>, Older, "Applied", None, None),
     AddArgs(<<"m", "e", "1">>, OnTheDay, "Applied", Some(3), Some(<<"x">>)),
     AddArgs(<<"M", "e">>, None, "Rejected", Some(1), None),
     AddArgs(<<"m", "e", "1">>, Older, "Rejected", None, Some(<<"x">>)),
     AddArgs(<<"M", "e">>, OnTheDay, "Recruiter Screen", None, Some(<<"x">>)),
     AddArgs(<<"m", "e", "1">>, None, "Applied", Some(2), None)}

\* targets: an id, an id never assigned, a company query matching both
\* companies of AddInputs and one matching the second only
TargetInputs == {<<"1">>, <<"9">>, <<"M", "E">>, <<"e", "1">>}

\* `update-status`: the new status and --last-action
StatusInputs ==
    {<<"Rejected", Some(<<"a">>)>>, <<"OA", None>>, <<"Interview", Some(<<"b">>)>>}

\* `update`: every field alone, none, and all of them
UpdateValues ==
    [NoArgs EXCEPT !.company = Some(<<"O", ",">>), !.role = Some(<<"s", "\"">>),
                   !.job_link = Some(<<"y">>), !.location = Some(<<"y">>),
                   !.date_applied = Some(StartDay), !.source = Some(<<"y">>),
                   !.status = Some("Ghosted"), !.priority = Some(1),
                   !.notes = Some(<<"y", "\n">>)]

FieldSet == {MutableFields[i] : i \in 1..Len(MutableFields)}

UpdateInputs ==
    {[f \in DOMAIN NoArgs |-> IF f \in fs THEN UpdateValues[f] ELSE NoArgs[f]] :
        fs \in {{}, FieldSet, {"role", "priority"}} \cup {{f} : f \in FieldSet}}

DaysInputs == {DefaultDays, 0}

\* `list`: --company, --status, --active-only
ListArgs(c, s, b) == [NoArgs EXCEPT !.company = c, !.status = s, !.active_only = b]

ListInputs ==
    {ListArgs(None, None, FALSE),
     ListArgs(None, None, TRUE),
     ListArgs(Some(<<"M", "E">>), None, FALSE),
     ListArgs(Some(<<"e", "_">>), None, FALSE),
     ListArgs(None, Some("Rejected"), FALSE),
     ListArgs(None, Some("Applied"), TRUE),
     ListArgs(Some(<<"M", "E">>), Some("Applied"), FALSE),
     ListArgs(Some(<<"M", "E">>), Some("Rejected"), TRUE),
     ListArgs(Some(<<"e", "_">>), Some("Applied"), TRUE)}

\* `search`: the query
SearchInputs ==
    {[NoArgs EXCEPT !.query = Some(q)] : q \in {<<"M", "E">>, <<"x">>, <<"s">>, <<"_">>}}

(* -------------------------------- state ------------------------------- *)

VARIABLES
    rows,    \* the rows of the applications table
    seq,     \* sqlite_sequence.seq: the largest id ever assigned
    now,     \* the clock (UTC), in ticks
    ncmds,   \* commands run so far
    last,    \* the last command: its arguments, what it printed and returned,
             \* and the store it started from
    issued,  \* history: the ids add_application returned, in order
    inflight \* a second invocation of the program that has resolved its
             \* target and has not written yet

vars == <<rows, seq, now, ncmds, last, issued, inflight>>

\* no second invocation is under way
Idle == [pc |-> "idle", cmd |-> "none", args |-> NoArgs, id |-> 0]

NoCmd ==
    [cmd |-> "none", args |-> NoArgs, out |-> "", id |-> 0, reported |-> {},
     result |-> <<>>, count |-> 0, before |-> {}, beforeSeq |-> 0, at |-> 0]

Init ==
    /\ rows = {}
    /\ seq = 0
    /\ now = StartDay * TicksPerDay
    /\ ncmds = 0
    /\ last = NoCmd
    /\ issued = <<>>
    /\ inflight = Idle

Ran(cmd, args, out, id, reported, result) ==
    [cmd |-> cmd, args |-> args, out |-> out, id |-> id, reported |-> reported,
     result |-> result, count |-> 0, before |-> rows, beforeSeq |-> seq, at |-> now]

\* what the ambiguity report prints of a match
Reported(r) == <<r.id, r.company, r.role, r.date_applied>>

(* ------------------------------ commands ------------------------------ *)

\* what main does with the rows a company query matched
\* (faulty variant: several matches are taken like one)
MatchOutcomeBad(matches) ==
    IF matches = {} THEN "no_match" ELSE "unique"
\* (faulty variant: only the case of one match is told apart)
MatchOutcomeOne(matches) ==
    IF Cardinality(matches) = 1 THEN "unique" ELSE "ambiguous"
MatchOutcome(matches) ==
    IF matches = {} THEN "no_match"
    ELSE IF Cardinality(matches) > 1 THEN "ambiguous"
    ELSE "unique"

\* app = matches[0]; app.id
\* (faulty variant: the position of the match is taken for its id)
ResolvedIdBad(matches) == Cardinality(matches)
ResolvedId(matches) == (CHOOSE r \in matches : TRUE).id

\* parse_args, `add`: --priority takes one of the choices 1, 2, 3; any other
\* value ends the program before main opens the store
AddAccepted(a) == IF IsNone(a.priority) THEN TRUE ELSE Get(a.priority) \in {1, 2, 3}

\* main, `add`
AddCmd(a) ==
    /\ ncmds < MaxCmds
    /\ AddAccepted(a)
    /\ LET res == add_application(rows, seq, now, Get(a.company), Get(a.role),
                                  a.job_link, a.location, a.date_applied, a.source,
                                  Get(a.status),
                                  IF IsNone(a.priority) THEN Some(2) ELSE a.priority,
                                  a.notes)
       IN /\ rows' = res.rows
          /\ seq' = res.seq
          /\ last' = Ran("add", a, "added", res.id, {}, <<>>)
          /\ issued' = Append(issued, res.id)
    /\ ncmds' = ncmds + 1
    /\ UNCHANGED <<now, inflight>>

\* main, `update-status`
UpdateStatusCmd(a) ==
    /\ ncmds < MaxCmds
    /\ LET target == Get(a.target)
           status == Get(a.status)
       IN IF IsInt(target)
          THEN LET res == update_status(rows, ParseInt(target), status, a.last_action)
               IN /\ rows' = res.rows
                  /\ last' = Ran("update-status", a,
                                 IF res.found THEN "updated" ELSE "no_id",
                                 ParseInt(target), {}, <<>>)
          ELSE LET matches == find_applications_by_company(rows, target)
               IN IF MatchOutcome(matches) = "no_match"
                  THEN /\ rows' = rows
                       /\ last' = Ran("update-status", a, "no_match", 0, {}, <<>>)
                  ELSE IF MatchOutcome(matches) = "ambiguous"
                  THEN /\ rows' = rows
                       /\ last' = Ran("update-status", a, "ambiguous", 0,
                                      {Reported(r) : r \in matches}, <<>>)
                  ELSE LET app_id == ResolvedId(matches)
                           res == update_status(rows, app_id, status, a.last_action)
                       IN /\ rows' = res.rows
                          /\ last' = Ran("update-status", a,
                                         IF res.found THEN "updated" ELSE "no_id",
                                         app_id, {}, <<>>)
    /\ ncmds' = ncmds + 1
    /\ UNCHANGED <<seq, now, issued, inflight>>

\* the row after UPDATE applications SET <the supplied columns>
\* (faulty variant: optional columns not supplied are set to NULL)
ApplyFieldsBad(r, a) ==
    [f \in DOMAIN r |->
        IF f \in FieldSet
        THEN IF f \in {"company", "role", "date_applied", "status"}
             THEN (IF IsNone(a[f]) THEN r[f] ELSE Get(a[f]))
             ELSE a[f]
        ELSE r[f]]
\* (faulty variant: a new status clears last_action, as update_status does)
ApplyFieldsClear(r, a) ==
    [f \in DOMAIN r |->
        IF f \in FieldSet /\ ~IsNone(a[f])
        THEN IF f \in {"company", "role", "date_applied", "status"} THEN Get(a[f]) ELSE a[f]
        ELSE IF f = "last_action" /\ ~IsNone(a.status) THEN None
        ELSE r[f]]
ApplyFields(r, a) ==
    [f \in DOMAIN r |->
        IF f \in FieldSet /\ ~IsNone(a[f])
        THEN IF f \in {"company", "role", "date_applied", "status"} THEN Get(a[f]) ELSE a[f]
        ELSE r[f]]

\* the `fields` dict main collects
SuppliedFields(a) == {f \in FieldSet : ~IsNone(a[f])}

\* `if not fields:` no column was supplied
\* (faulty variant: the collected fields are not looked at)
NothingToDoBad(a) == FALSE
NothingToDo(a) == SuppliedFields(a) = {}

\* main, `update`
UpdateCmd(a) ==
    /\ ncmds < MaxCmds
    /\ LET target == Get(a.target)
           matches == find_applications_by_company(rows, target)
           app_id == IF IsInt(target) THEN ParseInt(target) ELSE ResolvedId(matches)
       IN IF IsInt(target) /\ ParseInt(target) \notin Ids(rows)
          THEN /\ rows' = rows
               /\ last' = Ran("update", a, "no_id", ParseInt(target), {}, <<>>)
          ELSE IF ~IsInt(target) /\ MatchOutcome(matches) = "no_match"
          THEN /\ rows' = rows
               /\ last' = Ran("update", a, "no_match", 0, {}, <<>>)
          ELSE IF ~IsInt(target) /\ MatchOutcome(matches) = "ambiguous"
          THEN /\ rows' = rows
               /\ last' = Ran("update", a, "ambiguous", 0,
                              {Reported(r) : r \in matches}, <<>>)
          ELSE IF NothingToDo(a)
          THEN /\ rows' = rows
               /\ last' = Ran("update", a, "nothing", app_id, {}, <<>>)
          ELSE /\ rows' = {IF r.id = app_id THEN ApplyFields(r, a) ELSE r : r \in rows}
               /\ last' = Ran("update", a, "updated", app_id, {}, <<>>)
    /\ ncmds' = ncmds + 1
    /\ UNCHANGED <<seq, now, issued, inflight>>

\* `remove <id>`
RemoveCmd(a) ==
    /\ ncmds < MaxCmds
    /\ IsInt(Get(a.target))
    /\ LET res == remove_application(rows, ParseInt(Get(a.target)))
       IN /\ rows' = res.rows
          /\ last' = Ran("remove", a, IF res.deleted THEN "removed" ELSE "no_id",
                         ParseInt(Get(a.target)), {}, <<>>)
    /\ ncmds' = ncmds + 1
    /\ UNCHANGED <<seq, now, issued, inflight>>

\* main, `followups`
FollowupsCmd(a) ==
    /\ ncmds < MaxCmds
    /\ \E res \in followups(init_db(rows, seq).rows, now, Get(a.days)) :
          last' = Ran("followups", a, "listed", 0, {}, res)
    /\ ncmds' = ncmds + 1
    /\ rows' = init_db(rows, seq).rows
    /\ seq' = init_db(rows, seq).seq
    /\ UNCHANGED <<now, issued, inflight>>

\* main, `list`
ListCmd(a) ==
    /\ ncmds < MaxCmds
    /\ last' = Ran("list", a, "listed", 0, {},
                   list_applications(init_db(rows, seq).rows, a.company, a.status, a.active_only))
    /\ ncmds' = ncmds + 1
    /\ rows' = init_db(rows, seq).rows
    /\ seq' = init_db(rows, seq).seq
    /\ UNCHANGED <<now, issued, inflight>>

\* main, `search`
SearchCmd(a) ==
    /\ ncmds < MaxCmds
    /\ last' = Ran("search", a, "listed", 0, {}, search_applications(init_db(rows, seq).rows, Get(a.query)))
    /\ ncmds' = ncmds + 1
    /\ rows' = init_db(rows, seq).rows
    /\ seq' = init_db(rows, seq).seq
    /\ UNCHANGED <<now, issued, inflight>>

\* main, `export`
ExportCmd(a) ==
    /\ ncmds < MaxCmds
    /\ LET res == export_applications_to_csv(init_db(rows, seq).rows, a.active_only)
       IN last' = [Ran("export", a, "exported", 0, {}, res.file) EXCEPT !.count = res.count]
    /\ ncmds' = ncmds + 1
    /\ rows' = init_db(rows, seq).rows
    /\ seq' = init_db(rows, seq).seq
    /\ UNCHANGED <<now, issued, inflight>>

\* main, `stats`
StatsCmd ==
    /\ ncmds < MaxCmds
    /\ \E res \in stats_by_status(init_db(rows, seq).rows) :
          last' = Ran("stats", NoArgs, IF Len(res) = 0 THEN "empty" ELSE "listed", 0, {}, res)
    /\ ncmds' = ncmds + 1
    /\ rows' = init_db(rows, seq).rows
    /\ seq' = init_db(rows, seq).seq
    /\ UNCHANGED <<now, issued, inflight>>

\* main, `init`: run_init
InitCmd ==
    /\ ncmds < MaxCmds
    /\ last' = Ran("init", NoArgs, "initialized", 0, {}, <<>>)
    /\ ncmds' = ncmds + 1
    /\ rows' = init_db(rows, seq).rows
    /\ seq' = init_db(rows, seq).seq
    /\ UNCHANGED <<now, issued, inflight>>

\* time passes between two commands
Tick ==
    /\ now < StartDay * TicksPerDay + MaxTicks
    /\ now' = now + 1
    /\ UNCHANGED <<rows, seq, ncmds, last, issued, inflight>>

Next ==
    \/ \E a \in AddInputs : AddCmd(a)
    \/ \E t \in TargetInputs, s \in StatusInputs :
          UpdateStatusCmd([NoArgs EXCEPT !.target = Some(t), !.status = Some(s[1]),
                                         !.last_action = s[2]])
    \/ \E t \in TargetInputs, a \in UpdateInputs :
          UpdateCmd([a EXCEPT !.target = Some(t)])
    \/ \E t \in TargetInputs : RemoveCmd([NoArgs EXCEPT !.target = Some(t)])
    \/ \E d \in DaysInputs : FollowupsCmd([NoArgs EXCEPT !.days = Some(d)])
    \/ \E a \in ListInputs : ListCmd(a)
    \/ \E a \in SearchInputs : SearchCmd(a)
    \/ \E b \in BOOLEAN : ExportCmd([NoArgs EXCEPT !.active_only = b])
    \/ StatsCmd
    \/ InitCmd
    \/ Tick

Spec == Init /\ [][Next]_vars

(* ----------------- commands with values at the edges ------------------ *)

\* `add` with an empty --company and --status, and with a --priority that is
\* not among the choices
EdgeAddInputs ==
    {AddArgs(<<"M", "e">>, None, "Applied", None, None),
     AddArgs(<<>>, None, "", Some(3), None),
     AddArgs(<<"M", "e">>, None, "Applied", Some(7), None)}

\* `update` by id with an empty --company, --role and --status, with a
\* --priority outside 1..3, and with values as in UpdateValues
EdgeUpdateInputs ==
    {[NoArgs EXCEPT !.target = Some(<<"1">>), !.company = Some(<<>>)],
     [NoArgs EXCEPT !.target = Some(<<"1">>), !.role = Some(<<>>), !.status = Some("")],
     [NoArgs EXCEPT !.target = Some(<<"1">>), !.priority = Some(7)],
     [NoArgs EXCEPT !.target = Some(<<"2">>), !.priority = Some(0)],
     [NoArgs EXCEPT !.target = Some(<<"2">>), !.company = UpdateValues.company,
                    !.priority = UpdateValues.priority]}

NextEdge ==
    \/ \E a \in EdgeAddInputs : AddCmd(a)
    \/ \E a \in EdgeUpdateInputs : UpdateCmd(a)
    \/ \E t \in {<<"1">>, <<"2">>} :
          UpdateStatusCmd([NoArgs EXCEPT !.target = Some(t), !.status = Some("")])
    \/ \E t \in {<<"1">>, <<"2">>}, s \in StatusInputs :
          UpdateStatusCmd([NoArgs EXCEPT !.target = Some(t), !.status = Some(s[1]),
                                         !.last_action = s[2]])

SpecEdge == Init /\ [][NextEdge]_vars

(* ------------------- two invocations at the same time ----------------- *)

\* A second invocation of `update-status` or `update` with a company-name
\* target, in the two steps main takes: the lookup of the matches, then the
\* UPDATE of the id it resolved to.  No transaction spans the two, so the
\* commands of the first invocation can run in between.

\* main, `update-status` and `update`, except ValueError branch up to the
\* choice of matches[0]
ResolveStep(cmd, a) ==
    /\ ncmds < MaxCmds
    /\ inflight.pc = "idle"
    /\ ~IsInt(Get(a.target))
    /\ LET matches == find_applications_by_company(rows, Get(a.target))
       IN IF MatchOutcome(matches) = "unique"
          THEN /\ inflight' = [pc |-> "resolved", cmd |-> cmd, args |-> a,
                               id |-> ResolvedId(matches)]
               /\ last' = last
          ELSE /\ inflight' = Idle
               /\ last' = Ran(cmd, a, MatchOutcome(matches), 0,
                              IF MatchOutcome(matches) = "ambiguous"
                              THEN {Reported(r) : r \in matches} ELSE {}, <<>>)
    /\ ncmds' = ncmds + 1
    /\ UNCHANGED <<rows, seq, now, issued>>

\* main, `update-status` and `update`, from the choice of matches[0] on:
\* update_status, or the dynamic UPDATE, on the resolved id
WriteStep ==
    /\ inflight.pc = "resolved"
    /\ IF inflight.cmd = "update-status"
       THEN LET res == update_status(rows, inflight.id, Get(inflight.args.status),
                                     inflight.args.last_action)
            IN /\ rows' = res.rows
               /\ last' = Ran("update-status", inflight.args,
                              IF res.found THEN "updated" ELSE "no_id", inflight.id, {}, <<>>)
       ELSE IF NothingToDo(inflight.args)
       THEN /\ rows' = rows
            /\ last' = Ran("update", inflight.args, "nothing", inflight.id, {}, <<>>)
       ELSE /\ rows' = {IF r.id = inflight.id THEN ApplyFields(r, inflight.args) ELSE r :
                           r \in rows}
            /\ last' = Ran("update", inflight.args, "updated", inflight.id, {}, <<>>)
    /\ inflight' = Idle
    /\ UNCHANGED <<seq, now, ncmds, issued>>

\* the company-name targets of the second invocation
NameTargets == {t \in TargetInputs : ~IsInt(t)}

NextConcurrent ==
    \/ \E a \in AddInputs : AddCmd(a)
    \/ \E a \in UpdateInputs : UpdateCmd([a EXCEPT !.target = Some(<<"1">>)])
    \/ \E t \in NameTargets, s \in StatusInputs :
          ResolveStep("update-status",
                      [NoArgs EXCEPT !.target = Some(t), !.status = Some(s[1]),
                                     !.last_action = s[2]])
    \/ \E t \in NameTargets, a \in UpdateInputs :
          ResolveStep("update", [a EXCEPT !.target = Some(t)])
    \/ WriteStep

SpecConcurrent == Init /\ [][NextConcurrent]_vars

(* ------------------------------- claims ------------------------------- *)

\* the last command named its application by a target
Targeted == last.cmd \in {"update", "update-status"}

LastTarget == Get(last.args.target)

\* the rows whose company contains the last target, case-insensitively,
\* in the store the last command started from
Matching == {r \in last.before : IsSubstring(Lower(LastTarget), Lower(r.company))}

\* the value a supplied argument gives column f
Supplied(a, f) ==
    IF f \in {"company", "role", "date_applied", "status"} THEN Get(a[f]) ELSE a[f]

\* C1: `update` and `update-status` with a target that is not an integer and
\* matches the company of more than one stored application change nothing
\* and report every match by id, company, role and date_applied
C1_AmbiguityRefusal ==
    (Targeted /\ ~IsInt(LastTarget) /\ Cardinality(Matching) > 1) =>
        /\ rows = last.before
        /\ seq = last.beforeSeq
        /\ last.out = "ambiguous"
        /\ last.reported = {<<r.id, r.company, r.role, r.date_applied>> : r \in Matching}

C1_Witness ==
    /\ last.cmd = "update"
    /\ ~IsInt(LastTarget)
    /\ Cardinality(Matching) = 2
    /\ SuppliedFields(last.args) = {"priority"}
    /\ Cardinality(last.reported) = 2

\* C2: `update` and `update-status` with a target that is not an integer and
\* is contained, case-insensitively, in the company of exactly one stored
\* application apply the mutation to that application (update-status sets
\* status and last_action, update sets the supplied fields) and leave every
\* other row as it was
C2_UniqueMatch ==
    (Targeted /\ ~IsInt(LastTarget) /\ Cardinality(Matching) = 1) =>
        LET old == CHOOSE r \in Matching : TRUE
        IN \E new \in rows :
             /\ new.id = old.id
             /\ rows \ {new} = last.before \ {old}
             /\ last.cmd = "update-status" =>
                   /\ new.status = Get(last.args.status)
                   /\ new.last_action = last.args.last_action
             /\ last.cmd = "update" =>
                   \A f \in SuppliedFields(last.args) : new[f] = Supplied(last.args, f)

C2_Witness ==
    /\ last.cmd = "update-status"
    /\ ~IsInt(LastTarget)
    /\ Cardinality(Matching) = 1
    /\ Cardinality(last.before) = 2
    /\ \E r \in Matching : r.id = 2 /\ r.status # Get(last.args.status)
    /\ rows # last.before

\* the id of the existing application the last `update` resolved its target
\* to, as a set: empty when the target names none or several
UpdateTarget ==
    IF IsInt(LastTarget)
    THEN {ParseInt(LastTarget)} \cap Ids(last.before)
    ELSE IF Cardinality(Matching) = 1 THEN Ids(Matching) ELSE {}

\* C3: an `update` of an existing application sets exactly the supplied
\* fields; the fields not supplied, id and last_action keep their values,
\* and every other row is unchanged
C3_PartialUpdate ==
    (last.cmd = "update" /\ UpdateTarget # {}) =>
        \E old \in last.before, new \in rows :
            /\ old.id \in UpdateTarget
            /\ new.id = old.id
            /\ rows \ {new} = last.before \ {old}
            /\ \A f \in DOMAIN old :
                  new[f] = IF f \in SuppliedFields(last.args)
                           THEN Supplied(last.args, f)
                           ELSE old[f]

C3_Witness ==
    /\ last.cmd = "update"
    /\ UpdateTarget # {}
    /\ SuppliedFields(last.args) = {"role", "priority"}
    /\ Cardinality(last.before) = 2
    /\ \E r \in last.before :
          r.id \in UpdateTarget /\ ~IsNone(r.notes) /\ r.status # "Applied"
    /\ rows # last.before

\* C4: `update-status` and `update` aimed at a numeric id that is not in the
\* store report "No application with ID <id> exists." and leave the store
\* as it was
C4_NotFound ==
    (Targeted /\ IsInt(LastTarget) /\ ParseInt(LastTarget) \notin Ids(last.before)) =>
        /\ last.out = "no_id"
        /\ last.id = ParseInt(LastTarget)
        /\ rows = last.before
        /\ seq = last.beforeSeq

C4_Witness ==
    /\ last.cmd = "update-status"
    /\ IsInt(LastTarget)
    /\ ParseInt(LastTarget) \notin Ids(last.before)
    /\ last.before # {}
    /\ last.out = "no_id"

\* C5: `remove <id>` deletes exactly the row with that id and reports
\* "Removed application <id>."; for an id not in the store it reports
\* "No application with ID <id> exists." and leaves the store unchanged
C5_Remove ==
    last.cmd = "remove" =>
        LET app_id == ParseInt(LastTarget)
        IN /\ app_id \notin Ids(rows)
           /\ rows \subseteq last.before
           /\ \A r \in last.before : r.id # app_id => r \in rows
           /\ last.id = app_id
           /\ last.out = IF app_id \in Ids(last.before) THEN "removed" ELSE "no_id"
           /\ seq = last.beforeSeq

C5_Witness ==
    /\ last.cmd = "remove"
    /\ last.out = "removed"
    /\ Cardinality(last.before) = 2
    /\ Cardinality(rows) = 1

\* the elements of a sequence
Range(s) == {s[i] : i \in 1..Len(s)}

\* the priority main passes to add_application
PassedPriority == IF IsNone(last.args.priority) THEN Some(2) ELSE last.args.priority

\* the fields of r other than date_applied are those the last `add` passed
AddedAsPassed(r) ==
    /\ r.id = last.id
    /\ r.company = Get(last.args.company)
    /\ r.role = Get(last.args.role)
    /\ r.job_link = last.args.job_link
    /\ r.location = last.args.location
    /\ r.source = last.args.source
    /\ r.status = Get(last.args.status)
    /\ r.priority = PassedPriority
    /\ r.notes = last.args.notes
    /\ r.last_action = None

\* C6, as stated: after add_application the unfiltered list holds a record
\* with the returned id and every field, date_applied included, equal to
\* the value passed in, and the rows stored before are all still there
C6_InsertRoundTripAsStated ==
    last.cmd = "add" =>
        /\ \E r \in Range(list_applications(rows, None, None, FALSE)) :
              AddedAsPassed(r) /\ Some(r.date_applied) = last.args.date_applied
        /\ last.before \subseteq rows

\* C6, amended: after add_application the unfiltered list holds a record
\* with the returned id whose fields equal the values passed in, where
\* date_applied is the date passed in or, when none was passed, the current
\* date; last_action is null and the rows stored before are unchanged
C6_InsertRoundTrip ==
    last.cmd = "add" =>
        /\ \E r \in Range(list_applications(rows, None, None, FALSE)) :
              /\ AddedAsPassed(r)
              /\ r.date_applied = IF IsNone(last.args.date_applied)
                                  THEN last.at \div TicksPerDay
                                  ELSE Get(last.args.date_applied)
        /\ last.before \subseteq rows
        /\ Cardinality(rows) = Cardinality(last.before) + 1

C6_Witness ==
    /\ last.cmd = "add"
    /\ IsNone(last.args.date_applied)
    /\ Get(last.args.status) = "Rejected"
    /\ Cardinality(last.before) = 2
    /\ Len(list_applications(rows, None, None, FALSE)) = 3

\* C7: stored rows have distinct ids, and every id add_application returns
\* is greater than all ids returned before it, those of deleted rows
\* included
C7_IdsUniqueNeverReused ==
    /\ \A r1, r2 \in rows : r1.id = r2.id => r1 = r2
    /\ \A i, j \in 1..Len(issued) : i < j => issued[i] < issued[j]
    /\ Ids(rows) \subseteq Range(issued)

C7_Witness ==
    /\ last.cmd = "add"
    /\ rows # {}
    /\ \E i \in 1..Len(issued) : issued[i] \notin Ids(rows) /\ issued[i] < last.id

\* C8: update_status on an existing id sets the row's status and its
\* last_action to the values supplied (null when no last_action is
\* supplied) and changes no other field and no other row
C8_UpdateStatusEffect ==
    (last.cmd = "update-status" /\ last.id \in Ids(last.before)) =>
        \E old \in last.before, new \in rows :
            /\ old.id = last.id
            /\ new.id = last.id
            /\ rows \ {new} = last.before \ {old}
            /\ new.status = Get(last.args.status)
            /\ new.last_action = last.args.last_action
            /\ \A f \in DOMAIN old \ {"status", "last_action"} : new[f] = old[f]

C8_Witness ==
    /\ last.cmd = "update-status"
    /\ IsNone(last.args.last_action)
    /\ \E old \in last.before : old.id = last.id /\ ~IsNone(old.last_action)
    /\ \E new \in rows : new.id = last.id /\ IsNone(new.last_action)

\* the age in whole days of row r when the last command ran
AgeInDays(r) == (last.at \div TicksPerDay) - r.date_applied

\* C9: followups(days) returns exactly the stored applications whose status
\* is Applied, Recruiter Screen or OA and whose age in days (current date
\* minus date_applied) exceeds days, in ascending order of date_applied
C9_FollowupsByWholeDays ==
    last.cmd = "followups" =>
        /\ Range(last.result) =
              {r \in last.before :
                  /\ r.status \in {"Applied", "Recruiter Screen", "OA"}
                  /\ AgeInDays(r) > Get(last.args.days)}
        /\ \A i, j \in 1..Len(last.result) :
              i < j => last.result[i].date_applied <= last.result[j].date_applied

\* C10: whatever the time of day, followups(7) leaves out an early-stage
\* application dated exactly 7 days before the current date and returns an
\* Applied application dated 8 days before it
C10_FollowupsBoundary ==
    (last.cmd = "followups" /\ Get(last.args.days) = 7) =>
        \A r \in last.before :
            /\ (r.status \in {"Applied", "Recruiter Screen", "OA"} /\ AgeInDays(r) = 7)
                  => r \notin Range(last.result)
            /\ (r.status = "Applied" /\ AgeInDays(r) = 8)
                  => r \in Range(last.result)

\* thresholds a caller may pass to followups, negative ones included
AnyDays == {0 - 1, 0, DefaultDays}

\* the application with this id is in a result followups can return for
\* the store rs at tick t, under the threshold d
InFollowups(id, rs, t, d) == \E res \in followups(rs, t, d) : \E x \in Range(res) : x.id = id

\* C11: an application whose status is outside Applied, Recruiter Screen
\* and OA, such as one that update_status just moved there after
\* followups had listed it, is in no followups result for any threshold, in
\* every state until an operation sets its status back to one of the three
C11_AdvancedLeavesFollowups ==
    /\ \A r \in rows :
          r.status \notin {"Applied", "Recruiter Screen", "OA"} =>
              \A d \in AnyDays : ~InFollowups(r.id, rows, now, d)
    /\ last.cmd = "followups" =>
          \A i \in 1..Len(last.result) :
              last.result[i].status \in {"Applied", "Recruiter Screen", "OA"}

C11_Witness ==
    /\ last.cmd = "update-status"
    /\ last.out = "updated"
    /\ InFollowups(last.id, last.before, last.at, DefaultDays)
    /\ \E r \in rows : r.id = last.id /\ r.status = "Rejected"
    /\ \A d \in AnyDays : ~InFollowups(last.id, rows, now, d)

\* C12: list_applications with active_only set returns a part of what the
\* same filters return without it: no row whose status is Rejected,
\* Ghosted or Withdrawn, and every row of any other status
C12_ActiveOnly ==
    (last.cmd = "list" /\ last.args.active_only) =>
        LET all == Range(list_applications(last.before, last.args.company,
                                           last.args.status, FALSE))
            active == Range(last.result)
        IN /\ active \subseteq all
           /\ \A r \in active : r.status \notin {"Rejected", "Ghosted", "Withdrawn"}
           /\ \A r \in all :
                 r.status \notin {"Rejected", "Ghosted", "Withdrawn"} => r \in active

C12_Witness ==
    /\ last.cmd = "list"
    /\ last.args.active_only
    /\ Len(last.result) > 0
    /\ \E r \in last.before : r.status = "Rejected" /\ r \notin Range(last.result)
    /\ \E r \in Range(last.result) : r.status = "Applied"

\* what list_applications returns for the store of the last command under
\* one filter alone
CompanyAlone == Range(list_applications(last.before, last.args.company, None, FALSE))
StatusAlone == Range(list_applications(last.before, None, last.args.status, FALSE))
ActiveAlone == Range(list_applications(last.before, None, None, last.args.active_only))

\* C13: list_applications returns exactly the rows that pass every filter
\* supplied (the company filter matches, the status equals the status
\* filter, the status is not terminal under active_only), which is the
\* intersection of the results under each filter alone
C13_FiltersCompose ==
    last.cmd = "list" =>
        /\ Range(last.result) = (CompanyAlone \cap StatusAlone) \cap ActiveAlone
        /\ Range(last.result) =
              {r \in last.before :
                  /\ ~IsNone(last.args.company) => r \in CompanyAlone
                  /\ ~IsNone(last.args.status) => r.status = Get(last.args.status)
                  /\ last.args.active_only => r.status \notin TerminalStatuses}
        /\ Len(last.result) = Cardinality(Range(last.result))

C13_Witness ==
    /\ last.cmd = "list"
    /\ ~IsNone(last.args.company)
    /\ ~IsNone(last.args.status)
    /\ Len(last.result) > 0
    /\ Range(last.result) # CompanyAlone
    /\ Range(last.result) = StatusAlone \cap CompanyAlone

\* C14: the rows list_applications and search_applications return are in
\* descending order of date_applied, rows of one date in descending order
\* of id, whatever the store and the filters
C14_ResultOrder ==
    last.cmd \in {"list", "search"} =>
        \A i, j \in 1..Len(last.result) :
            i < j =>
                \/ last.result[i].date_applied > last.result[j].date_applied
                \/ /\ last.result[i].date_applied = last.result[j].date_applied
                   /\ last.result[i].id > last.result[j].id

C14_Witness ==
    /\ last.cmd = "search"
    /\ Len(last.result) = 2
    /\ last.result[1].date_applied = last.result[2].date_applied
    /\ last.result[1].id > last.result[2].id
    /\ Cardinality(last.before) = 2

\* C15: search_applications returns exactly the rows where the lowercased
\* query is a literal substring of the lowercased company, the lowercased
\* role or the lowercased notes (null notes count as the empty text), for
\* every query
C15_SearchLiteralSubstring ==
    last.cmd = "search" =>
        LET q == Lower(Get(last.args.query))
        IN Range(last.result) =
              {r \in last.before :
                  \/ IsSubstring(q, Lower(r.company))
                  \/ IsSubstring(q, Lower(r.role))
                  \/ IsSubstring(q, Lower(IF IsNone(r.notes) THEN <<>> ELSE Get(r.notes)))}

\* C16: list_applications with a company filter that is not empty returns
\* exactly the rows whose company contains the filter as a substring,
\* compared without regard to case, for every filter
C16_CompanyFilterSubstring ==
    (/\ last.cmd = "list"
     /\ ~IsNone(last.args.company)
     /\ Len(Get(last.args.company)) > 0
     /\ IsNone(last.args.status)
     /\ ~last.args.active_only) =>
        Range(last.result) =
            {r \in last.before : IsSubstring(Lower(Get(last.args.company)), Lower(r.company))}

\* C17: `update` and `update-status` with a target that is not an integer
\* and matches the company of no stored application report that nothing
\* matches and change nothing
C17_NoMatch ==
    (Targeted /\ ~IsInt(LastTarget) /\ Matching = {}) =>
        /\ last.out = "no_match"
        /\ last.reported = {}
        /\ rows = last.before
        /\ seq = last.beforeSeq

C17_Witness ==
    /\ last.cmd = "update"
    /\ ~IsInt(LastTarget)
    /\ last.before # {}
    /\ Matching = {}
    /\ ~IsNone(last.args.role)
    /\ last.out = "no_match"

\* the last target names one stored application, by id or by company
TargetResolves ==
    IF IsInt(LastTarget)
    THEN ParseInt(LastTarget) \in Ids(last.before)
    ELSE Cardinality(Matching) = 1

\* C18: `update` that supplies none of the nine mutable fields, on a target
\* that resolves to a stored application, says there is nothing to do and
\* writes nothing
C18_NothingToUpdate ==
    (/\ last.cmd = "update"
     /\ TargetResolves
     /\ \A f \in {"company", "role", "job_link", "location", "date_applied",
                   "source", "status", "priority", "notes"} : IsNone(last.args[f])) =>
        /\ last.out = "nothing"
        /\ rows = last.before
        /\ seq = last.beforeSeq

C18_Witness ==
    /\ last.cmd = "update"
    /\ IsInt(LastTarget)
    /\ Cardinality(last.before) = 2
    /\ TargetResolves
    /\ last.out = "nothing"

\* csv.reader, one record: the texts of the fields of the record that
\* starts at position i of the characters f, and the position after it.
\* `quoted` tells a quoted field is open, `cell` is the field read so far
\* and `rec` the fields before it
RECURSIVE ReadRecord(_, _, _, _, _)
ReadRecord(f, i, quoted, cell, rec) ==
    IF i > Len(f)
    THEN [rec |-> Append(rec, cell), next |-> i]
    ELSE IF quoted
    THEN IF f[i] = "\""
         THEN IF i < Len(f) /\ f[i + 1] = "\""
              THEN ReadRecord(f, i + 2, TRUE, Append(cell, "\""), rec)
              ELSE ReadRecord(f, i + 1, FALSE, cell, rec)
         ELSE ReadRecord(f, i + 1, TRUE, Append(cell, f[i]), rec)
    ELSE IF f[i] = "\"" /\ Len(cell) = 0
    THEN ReadRecord(f, i + 1, TRUE, cell, rec)
    ELSE IF f[i] = ","
    THEN ReadRecord(f, i + 1, FALSE, <<>>, Append(rec, cell))
    ELSE IF f[i] \in {"\r", "\n"}
    THEN [rec |-> Append(rec, cell),
          next |-> IF f[i] = "\r" /\ i < Len(f) /\ f[i + 1] = "\n" THEN i + 2 ELSE i + 1]
    ELSE ReadRecord(f, i + 1, FALSE, Append(cell, f[i]), rec)

\* csv.reader: the records of the characters f from position i on
RECURSIVE CsvRead(_, _)
CsvRead(f, i) ==
    IF i > Len(f) THEN <<>>
    ELSE LET r == ReadRecord(f, i, FALSE, <<>>, <<>>)
         IN <<r.rec>> \o CsvRead(f, r.next)

\* the records of the file the last `export` wrote
FileRecords == CsvRead(last.result, 1)

\* the lines of that file: every \r\n, lone \n and lone \r ends one
FileLines ==
    Cardinality({i \in 1..Len(last.result) :
                    \/ last.result[i] = "\n"
                    \/ /\ last.result[i] = "\r"
                       /\ (i = Len(last.result) \/ last.result[i + 1] # "\n")})

\* what list_applications returns without a company or status filter for
\* the store and the active_only of the last command
Listed == list_applications(last.before, None, None, last.args.active_only)

\* C19: export_applications_to_csv writes the header id, company, role,
\* job_link, location, date_applied, source, status, last_action, priority,
\* notes, then one record for each row list_applications(None, None,
\* active_only) returns, in that order, and returns the number of records
C19_ExportContent ==
    last.cmd = "export" =>
        /\ Len(FileRecords) = Len(Listed) + 1
        /\ FileRecords[1] =
              <<<<"id">>, <<"company">>, <<"role">>, <<"job_link">>, <<"location">>,
                <<"date_applied">>, <<"source">>, <<"status">>, <<"last_action">>,
                <<"priority">>, <<"notes">>>>
        /\ \A i \in 1..Len(Listed) : FileRecords[i + 1] = RowCells(Listed[i])
        /\ last.count = Len(Listed)
        /\ rows = last.before

C19_Witness ==
    /\ last.cmd = "export"
    /\ last.args.active_only
    /\ last.count = 1
    /\ Cardinality(last.before) = 2
    /\ Len(FileRecords) = 2

\* the company column of the records after the header
CompaniesRead == {FileRecords[i][2] : i \in 2..Len(FileRecords)}

\* C20, as stated: a file of N exported rows has exactly N + 1 lines, and
\* reading it back gives the set of company names of the store
C20_ExportLinesAsStated ==
    last.cmd = "export" =>
        /\ FileLines = last.count + 1
        /\ CompaniesRead = {r.company : r \in last.before}

\* a text written to the file for one of the rows holds a line break
BreakExported ==
    \E i \in 1..Len(Listed) : \E k \in 1..Len(fieldnames) :
        \E c \in Range(RowCells(Listed[i])[k]) : c \in {"\r", "\n"}

\* C20, amended: a file of N exported rows has exactly N + 1 records, which
\* are N + 1 lines when no exported text holds a line break, and reading
\* it back gives the set of company names of the exported rows, which are
\* all rows of the store unless active_only is set
C20_ExportRecords ==
    last.cmd = "export" =>
        /\ Len(FileRecords) = last.count + 1
        /\ ~BreakExported => FileLines = last.count + 1
        /\ CompaniesRead = {Listed[i].company : i \in 1..Len(Listed)}
        /\ ~last.args.active_only => CompaniesRead = {r.company : r \in last.before}

C20_Witness ==
    /\ last.cmd = "export"
    /\ last.count = 1
    /\ BreakExported
    /\ FileLines = 3
    /\ CompaniesRead = {<<"O", ",">>}

\* C21: after any add, update and update-status commands the program
\* accepts, every stored application has a company, a role, a date_applied
\* and a status that are neither null nor the empty text (date_applied is a
\* day number in every state of the model)
C21_RequiredFieldsPresent ==
    \A r \in rows :
        /\ Len(r.company) > 0
        /\ Len(r.role) > 0
        /\ r.status # ""
        /\ r.date_applied \in Nat

\* C22: after any add and update commands the program accepts, the
\* priority of every stored application is absent or one of 1, 2, 3
C22_PriorityInRange ==
    \A r \in rows : IsNone(r.priority) \/ Get(r.priority) \in {1, 2, 3}

\* the sum of the counts of the lines s of a statistics report
RECURSIVE SumCounts(_)
SumCounts(s) == IF Len(s) = 0 THEN 0 ELSE Head(s)[2] + SumCounts(Tail(s))

C24_InitIdempotent ==
    last.cmd = "init" =>
        /\ rows = last.before
        /\ seq = last.beforeSeq

C24_Witness ==
    /\ last.cmd = "init"
    /\ Cardinality(rows) = 2
    /\ seq = 2
    /\ rows = last.before
    /\ seq = last.beforeSeq

\* the last target is a run of digits
NumericTarget == Len(LastTarget) > 0 /\ \A i \in 1..Len(LastTarget) : IsDigit(LastTarget[i])

\* C25: `update` and `update-status` with a target that parses as an
\* integer never take it for a company query: no row other than the one
\* with that id changes, also when a stored company contains the digits,
\* and nothing changes when no row has that id
C25_NumericTargetById ==
    (Targeted /\ NumericTarget) =>
        /\ last.out \in {"updated", "nothing", "no_id"}
        /\ last.id = ParseInt(LastTarget)
        /\ {r \in rows : r.id # ParseInt(LastTarget)} =
              {r \in last.before : r.id # ParseInt(LastTarget)}
        /\ Ids(rows) = Ids(last.before)
        /\ ParseInt(LastTarget) \notin Ids(last.before) =>
              (rows = last.before /\ last.out = "no_id")

C25_Witness ==
    /\ Targeted
    /\ NumericTarget
    /\ last.out = "updated"
    /\ rows # last.before
    /\ \E r \in last.before : r.id # ParseInt(LastTarget) /\ IsSubstring(LastTarget, r.company)

\* C26: an application just added has a null last_action, and the
\* last_action of a stored application differs from what it was before a
\* command only when the command is an update-status on that application;
\* add and `update`, with --status or without, change no last_action
C26_LastActionOnlyByStatusUpdate ==
    /\ last.cmd = "add" =>
          \E r \in rows : r.id = last.id /\ IsNone(r.last_action)
    /\ \A old \in last.before, new \in rows :
          (old.id = new.id /\ old.last_action # new.last_action) =>
              (last.cmd = "update-status" /\ last.id = old.id)

C26_Witness ==
    /\ last.cmd = "update"
    /\ last.out = "updated"
    /\ ~IsNone(last.args.status)
    /\ \E old \in last.before, new \in rows :
          /\ old.id = last.id
          /\ new.id = last.id
          /\ old.status # new.status
          /\ ~IsNone(old.last_action)
          /\ new.last_action = old.last_action

\* C27: list, search, followups, stats and export leave the rows, every
\* field of every row and the id counter as they were; the rows differ
\* from those before a command only after add, update-status, update and
\* remove
C27_ReadsLeaveStore ==
    /\ last.cmd \in {"list", "search", "followups", "stats", "export"} =>
          (rows = last.before /\ seq = last.beforeSeq)
    /\ rows # last.before => last.cmd \in {"add", "update-status", "update", "remove"}

C27_Witness ==
    /\ last.cmd = "export"
    /\ last.count = 2
    /\ Cardinality(rows) = 2
    /\ rows = last.before
    /\ seq = last.beforeSeq

\* C29: in every reachable state and for every threshold, every
\* application followups returns is one list_applications(None, None,
\* active_only = TRUE) returns, and no status is both early-stage and
\* terminal
C29_FollowupsAreActive ==
    /\ \A d \in AnyDays : \A res \in followups(rows, now, d) :
          Range(res) \subseteq Range(list_applications(rows, None, None, TRUE))
    /\ last.cmd = "followups" =>
          Range(last.result) \subseteq Range(list_applications(last.before, None, None, TRUE))
    /\ EarlyStatuses \cap TerminalStatuses = {}

C29_Witness ==
    /\ last.cmd = "followups"
    /\ Len(last.result) = 1
    /\ \E r \in rows :
          /\ r.status = "Rejected"
          /\ JulianNow(now) - JulianDay(r.date_applied) > Get(last.args.days) * TicksPerDay
    /\ Len(list_applications(rows, None, None, TRUE)) = 1
    /\ Range(last.result) = Range(list_applications(rows, None, None, TRUE))

\* C30: called with the arguments of the last command on the store it
\* started from, the function of the same name in jobs_cli.py leaves the
\* store the function of jobapp/db.py left and returns what it returned;
\* step by step, the two keep one store over every sequence of calls
C30_ScriptAgreesWithPackage ==
    /\ last.cmd = "add" =>
          LET res == jobs_cli_add_application(
                         last.before, last.beforeSeq, last.at, Get(last.args.company),
                         Get(last.args.role), last.args.job_link, last.args.location,
                         last.args.date_applied, last.args.source, Get(last.args.status),
                         PassedPriority, last.args.notes)
          IN res.rows = rows /\ res.seq = seq /\ res.id = last.id
    /\ (last.cmd = "update-status" /\ last.out \in {"updated", "no_id"}) =>
          LET res == jobs_cli_update_status(last.before, last.id, Get(last.args.status),
                                            last.args.last_action)
          IN res.rows = rows /\ res.found = (last.out = "updated")
    /\ last.cmd = "list" =>
          last.result = jobs_cli_list_applications(last.before, last.args.company,
                                                   last.args.status, last.args.active_only)
    /\ last.cmd = "followups" =>
          /\ last.result \in jobs_cli_followups(last.before, last.at, Get(last.args.days))
          /\ jobs_cli_followups(last.before, last.at, Get(last.args.days)) =
                followups(last.before, last.at, Get(last.args.days))

C30_Witness ==
    /\ last.cmd = "update-status"
    /\ last.out = "updated"
    /\ Cardinality(last.before) = 2
    /\ ~IsNone(last.args.last_action)
    /\ jobs_cli_update_status(last.before, last.id, Get(last.args.status),
                              last.args.last_action).rows # last.before

====
